---- MODULE Spec2Model ----
(***************************************************************************)
(* Pile-test report store (zustand), its OCR client, the upload and verify *)
(* pages and the editable confidence cell, as a state machine.             *)
(*                                                                         *)
(* Values.  A JavaScript value is a tagged record: Null, Num(n), Str(s).   *)
(* A string is a sequence of one-character strings, so that toLowerCase,   *)
(* includes, trim, parseFloat and toString are computed, not assumed.      *)
(* A confidence is an integer number of thousandths (1000 is 1.0).         *)
(*                                                                         *)
(* State.  The eight fields of ReportState; requests, the promise state of *)
(* every extractReadings call issued so far (its index stands for the      *)
(* Date.now() of its answer); route, the page shown; cell, the one         *)
(* ConfidenceCell in edit mode with its buffer (every other cell's buffer  *)
(* is kept equal to its value by the sync effect); edits, the number of    *)
(* edits that changed a field so far.                                      *)
(*                                                                         *)
(* The OCR health flag of the upload page only disables the extract        *)
(* button, so it removes behaviours and adds none; it is left out.         *)
(***************************************************************************)
EXTENDS Integers, Sequences, FiniteSets, TLC

VARIABLES uploadedFiles, testType, projectInfo, readings, autoDetectCycles,
          currentStep, isLoading, error, requests, route, cell, edits

store == <<uploadedFiles, testType, projectInfo, readings, autoDetectCycles,
           currentStep, isLoading, error>>

vars == <<uploadedFiles, testType, projectInfo, readings, autoDetectCycles,
          currentStep, isLoading, error, requests, route, cell, edits>>

----------------------------------------------------------------------------
(* Bounds of the exploration *)

MaxLen == 3

MaxPressure == 3

MaxFiles == 2

MaxRequests == 2

MaxEdits == 1

MaxBatch == 2

MaxProjectCells == 3

----------------------------------------------------------------------------
(* JavaScript values *)

Null == [k |-> "null"]

Num(n) == [k |-> "num", n |-> n]

Str(s) == [k |-> "str", s |-> s]

NoCycle == "undefined"

NoProjectInfo == [k |-> "null"]

NoTestType == "null"

NoError == "null"

NoCell == [k |-> "none"]

FullConfidence == 1000

OCRValue(v, c) == [value |-> v, confidence |-> c]

----------------------------------------------------------------------------
(* Confidence tiers *)

CONFIDENCE_THRESHOLDS == [LOW |-> 750, MEDIUM |-> 850]

getConfidenceLevel_inclusive(confidence) ==
  IF confidence <= CONFIDENCE_THRESHOLDS.LOW THEN "low"
  ELSE IF confidence <= CONFIDENCE_THRESHOLDS.MEDIUM THEN "medium"
  ELSE "high"

getConfidenceLevel(confidence) ==
  IF confidence < CONFIDENCE_THRESHOLDS.LOW THEN "low"
  ELSE IF confidence < CONFIDENCE_THRESHOLDS.MEDIUM THEN "medium"
  ELSE "high"

(* ProjectInfoCompact: cn(...) keeps the class of every condition that holds *)
compactClasses(confidence) ==
  (IF confidence < 750 THEN {"text-rose-600"} ELSE {})
  \cup (IF confidence >= 750 /\ confidence < 850
        THEN {"text-amber-600"} ELSE {})
  \cup (IF confidence >= 850 THEN {"text-slate-800"} ELSE {})

primaryFields == <<"testNo", "project", "location", "pileDiameter">>

----------------------------------------------------------------------------
(* Strings *)

UpperToLower == [c \in {"H", "O", "L", "D"} |->
                   CASE c = "H" -> "h" [] c = "O" -> "o"
                     [] c = "L" -> "l" [] c = "D" -> "d"]

toLowerCase(s) ==
  [i \in 1..Len(s) |-> IF s[i] \in DOMAIN UpperToLower
                       THEN UpperToLower[s[i]] ELSE s[i]]

includes(s, sub) ==
  \E i \in 0..(Len(s) - Len(sub)) : SubSeq(s, i + 1, i + Len(sub)) = sub

hold == <<"h", "o", "l", "d">>

----------------------------------------------------------------------------
(* Number <-> string conversions used by the OCR client and by the cell *)

Digits == <<"0", "1", "2", "3", "4", "5", "6", "7", "8", "9">>

Whitespace == {" "}

RECURSIVE natToString(_)
natToString(n) ==
  IF n < 10 THEN <<Digits[n + 1]>>
  ELSE natToString(n \div 10) \o <<Digits[(n % 10) + 1]>>

numberToString(n) ==
  IF n < 0 THEN <<"-">> \o natToString(0 - n) ELSE natToString(n)

toString(v) == IF v.k = "num" THEN numberToString(v.n) ELSE v.s

digitValue(c) == CHOOSE d \in 0..9 : Digits[d + 1] = c

isDigit(c) == \E d \in 1..10 : Digits[d] = c

RECURSIVE trimStart(_)
trimStart(s) ==
  IF Len(s) > 0 /\ Head(s) \in Whitespace THEN trimStart(Tail(s)) ELSE s

RECURSIVE trimEnd(_)
trimEnd(s) ==
  IF Len(s) > 0 /\ s[Len(s)] \in Whitespace
  THEN trimEnd(SubSeq(s, 1, Len(s) - 1)) ELSE s

trim(s) == trimEnd(trimStart(s))

RECURSIVE digitRun(_, _, _)
digitRun(s, acc, seen) ==
  IF Len(s) > 0 /\ isDigit(Head(s))
  THEN digitRun(Tail(s), 10 * acc + digitValue(Head(s)), TRUE)
  ELSE [acc |-> acc, seen |-> seen]

NaN == [k |-> "NaN"]

parseFloat(s) ==
  LET t    == trimStart(s)
      neg  == Len(t) > 0 /\ Head(t) = "-"
      sign == Len(t) > 0 /\ Head(t) \in {"-", "+"}
      run  == digitRun(IF sign THEN Tail(t) ELSE t, 0, FALSE)
  IN IF ~run.seen THEN NaN
     ELSE Num(IF neg THEN 0 - run.acc ELSE run.acc)

----------------------------------------------------------------------------
(* OCR client: the raw response and its transformation.  A raw record is   *)
(* a TLA+ record whose absent keys are absent from its DOMAIN, so that     *)
(* optional chaining (?.) and the ?? defaults are computed.                *)

PROJECT_KEYS ==
  << <<"testNo", "test_no">>, <<"project", "project">>,
     <<"location", "location">>, <<"contractor", "contractor">>,
     <<"clientName", "client_name">>, <<"pileDiameter", "pile_diameter">>,
     <<"designLoad", "design_load">>, <<"testLoad", "test_load">>,
     <<"ramArea", "ram_area">>, <<"dateOfCasting", "date_of_casting">>,
     <<"pileDepth", "pile_depth">>, <<"lcDialGauge", "lc_dial_gauge">>,
     <<"testType", "test_type">>, <<"mixedDesign", "mixed_design">> >>

ProjectFields == {PROJECT_KEYS[i][1] : i \in 1..Len(PROJECT_KEYS)}

snakeKey(field) ==
  PROJECT_KEYS[CHOOSE i \in 1..Len(PROJECT_KEYS) :
                  PROJECT_KEYS[i][1] = field][2]

rawValueOf(raw, key) ==
  IF key \in DOMAIN raw /\ "value" \in DOMAIN raw[key]
  THEN raw[key].value ELSE Null

stringField(raw, key) ==
  IF rawValueOf(raw, key) = Null THEN Null
  ELSE Str(toString(rawValueOf(raw, key)))

numberField(raw, key) ==
  IF rawValueOf(raw, key).k = "num" THEN rawValueOf(raw, key) ELSE Null

confidenceField(raw, key, default) ==
  IF key \in DOMAIN raw /\ "confidence" \in DOMAIN raw[key]
  THEN raw[key].confidence ELSE default

getField(raw, key) ==
  OCRValue(stringField(raw, key), confidenceField(raw, key, 0))

transformProjectInfo(raw) ==
  [field \in ProjectFields |-> getField(raw, snakeKey(field))]

transformReading(reading, index, now) ==
  [id       |-> <<"reading", index, now>>,
   date     |-> OCRValue(stringField(reading, "date"),
                         confidenceField(reading, "date", 0)),
   time     |-> OCRValue(stringField(reading, "time"),
                         confidenceField(reading, "time", 0)),
   pressure |-> OCRValue(numberField(reading, "pressure"),
                         confidenceField(reading, "pressure", 0)),
   gauge1   |-> OCRValue(numberField(reading, "gauge1"),
                         confidenceField(reading, "gauge1", 0)),
   gauge2   |-> OCRValue(numberField(reading, "gauge2"),
                         confidenceField(reading, "gauge2", 0)),
   gauge3   |-> OCRValue(numberField(reading, "gauge3"),
                         confidenceField(reading, "gauge3", 0)),
   gauge4   |-> OCRValue(numberField(reading, "gauge4"),
                         confidenceField(reading, "gauge4", 0)),
   remark   |-> OCRValue(stringField(reading, "remark"),
                         confidenceField(reading, "remark", FullConfidence)),
   cycle    |-> NoCycle]

transformReadings_newestFirst(raw, now) ==
  [i \in 1..Len(raw) |-> transformReading(raw[Len(raw) + 1 - i], i - 1, now)]

transformReadings(raw, now) ==
  [i \in 1..Len(raw) |-> transformReading(raw[i], i - 1, now)]

----------------------------------------------------------------------------
(* detectCycles: one left-to-right pass carrying prevPressure and          *)
(* currentCycle                                                            *)

remarkHasHold(reading) ==
  /\ reading.remark.value # Null
  /\ includes(toLowerCase(reading.remark.value.s), hold)

trendCycle_swapped(pressure, prevPressure, currentCycle) ==
  IF prevPressure # Null
  THEN IF pressure.n < prevPressure.n THEN "loading"
       ELSE IF pressure.n > prevPressure.n THEN "unloading"
       ELSE "holding"
  ELSE currentCycle

trendCycle_equalUnloads(pressure, prevPressure, currentCycle) ==
  IF prevPressure # Null
  THEN IF pressure.n > prevPressure.n THEN "loading" ELSE "unloading"
  ELSE currentCycle

trendCycle_equalLoads(pressure, prevPressure, currentCycle) ==
  IF prevPressure # Null
  THEN IF pressure.n >= prevPressure.n THEN "loading" ELSE "unloading"
  ELSE currentCycle

trendCycle(pressure, prevPressure, currentCycle) ==
  IF prevPressure # Null
  THEN IF pressure.n > prevPressure.n THEN "loading"
       ELSE IF pressure.n < prevPressure.n THEN "unloading"
       ELSE "holding"
  ELSE currentCycle

holdCycle_remarkAlone(rs, index, currentCycle) ==
  IF index > 1 /\ remarkHasHold(rs[index])
  THEN "holding"
  ELSE currentCycle

holdCycle(rs, index, currentCycle) ==
  IF /\ index > 1
     /\ rs[index - 1].pressure.value = rs[index].pressure.value
     /\ remarkHasHold(rs[index])
  THEN "holding"
  ELSE currentCycle

RECURSIVE updatedReadings_nullResets(_, _, _, _)
updatedReadings_nullResets(rs, index, prevPressure, currentCycle) ==
  IF index > Len(rs) THEN <<>>
  ELSE LET reading == rs[index]
           pressure == reading.pressure.value
       IN IF pressure = Null
          THEN <<[reading EXCEPT !.cycle = currentCycle]>>
               \o updatedReadings_nullResets(rs, index + 1, Null, currentCycle)
          ELSE LET cycle == holdCycle(rs, index,
                              trendCycle(pressure, prevPressure, currentCycle))
               IN <<[reading EXCEPT !.cycle = cycle]>>
                  \o updatedReadings_nullResets(rs, index + 1, pressure, cycle)

RECURSIVE updatedReadings_skipsNull(_, _, _, _)
updatedReadings_skipsNull(rs, index, prevPressure, currentCycle) ==
  IF index > Len(rs) THEN <<>>
  ELSE LET reading == rs[index]
           pressure == reading.pressure.value
       IN IF pressure = Null
          THEN <<reading>>
               \o updatedReadings_skipsNull(rs, index + 1, prevPressure,
                                            currentCycle)
          ELSE LET cycle == holdCycle(rs, index,
                              trendCycle(pressure, prevPressure, currentCycle))
               IN <<[reading EXCEPT !.cycle = cycle]>>
                  \o updatedReadings_skipsNull(rs, index + 1, pressure, cycle)

RECURSIVE updatedReadings(_, _, _, _)
updatedReadings(rs, index, prevPressure, currentCycle) ==
  IF index > Len(rs) THEN <<>>
  ELSE LET reading == rs[index]
           pressure == reading.pressure.value
       IN IF pressure = Null
          THEN <<[reading EXCEPT !.cycle = currentCycle]>>
               \o updatedReadings(rs, index + 1, prevPressure, currentCycle)
          ELSE LET cycle == holdCycle(rs, index,
                              trendCycle(pressure, prevPressure, currentCycle))
               IN <<[reading EXCEPT !.cycle = cycle]>>
                  \o updatedReadings(rs, index + 1, pressure, cycle)

detectCyclesOf_startsHolding(rs) ==
  IF Len(rs) = 0 THEN rs ELSE updatedReadings(rs, 1, Null, "holding")

detectCyclesOf(rs) ==
  IF Len(rs) = 0 THEN rs ELSE updatedReadings(rs, 1, Null, "loading")

detectCycles ==
  /\ readings' = detectCyclesOf(readings)
  /\ UNCHANGED <<uploadedFiles, testType, projectInfo, autoDetectCycles,
                 currentStep, isLoading, error, requests, route,
                 cell, edits>>

setAutoDetectCycles_keepsCycles(enabled) ==
  /\ autoDetectCycles' = enabled
  /\ readings' = IF enabled THEN detectCyclesOf(readings) ELSE readings
  /\ UNCHANGED <<uploadedFiles, testType, projectInfo, currentStep,
                 isLoading, error, requests, route, cell, edits>>

setAutoDetectCycles_keepsOverrides(enabled) ==
  /\ autoDetectCycles' = enabled
  /\ readings' = IF enabled
                 THEN [i \in 1..Len(readings) |->
                         IF readings[i].cycle # NoCycle THEN readings[i]
                         ELSE detectCyclesOf(readings)[i]]
                 ELSE [i \in 1..Len(readings) |->
                         [readings[i] EXCEPT !.cycle = NoCycle]]
  /\ UNCHANGED <<uploadedFiles, testType, projectInfo, currentStep,
                 isLoading, error, requests, route, cell, edits>>

setAutoDetectCycles(enabled) ==
  /\ autoDetectCycles' = enabled
  /\ readings' = IF enabled THEN detectCyclesOf(readings)
                 ELSE [i \in 1..Len(readings) |->
                         [readings[i] EXCEPT !.cycle = NoCycle]]
  /\ UNCHANGED <<uploadedFiles, testType, projectInfo, currentStep,
                 isLoading, error, requests, route, cell, edits>>

----------------------------------------------------------------------------
(* The store: initial state and the actions reached from the pages *)

maxFiles == 10

TEST_TYPES == <<"IVPLT", "RVPLT", "PULLOUT", "LATERAL">>

TestTypes == {TEST_TYPES[i] : i \in 1..Len(TEST_TYPES)}

initialState ==
  /\ uploadedFiles = <<>>
  /\ testType = NoTestType
  /\ projectInfo = NoProjectInfo
  /\ readings = <<>>
  /\ autoDetectCycles = TRUE
  /\ currentStep = "upload"
  /\ isLoading = FALSE
  /\ error = NoError

setReadings(rs) == IF autoDetectCycles THEN detectCyclesOf(rs) ELSE rs

(* { ...r, ...updates }: the keys of updates replace those of the reading *)
spread(r, updates) ==
  [f \in DOMAIN r \cup DOMAIN updates |->
     IF f \in DOMAIN updates THEN updates[f] ELSE r[f]]

updateReading(id, updates) ==
  /\ edits < MaxEdits
  /\ \E i \in 1..Len(readings) : readings[i].id = id
  /\ readings' = [i \in 1..Len(readings) |->
                    IF readings[i].id = id
                    THEN spread(readings[i], updates) ELSE readings[i]]
  /\ edits' = edits + 1
  /\ UNCHANGED <<uploadedFiles, testType, projectInfo, autoDetectCycles,
                 currentStep, isLoading, error, requests, route, cell>>

(* reset empties projectInfo and readings, which unmounts every cell *)
reset ==
  /\ uploadedFiles' = <<>>
  /\ testType' = NoTestType
  /\ projectInfo' = NoProjectInfo
  /\ readings' = <<>>
  /\ autoDetectCycles' = TRUE
  /\ currentStep' = "upload"
  /\ isLoading' = FALSE
  /\ error' = NoError
  /\ cell' = NoCell
  /\ UNCHANGED <<requests, route, edits>>

setStep(step) ==
  /\ currentStep' = step
  /\ UNCHANGED <<uploadedFiles, testType, projectInfo, readings,
                 autoDetectCycles, isLoading, error, requests, route,
                 cell, edits>>

----------------------------------------------------------------------------
(* Upload page *)

canProceed == Len(uploadedFiles) > 0 /\ testType # NoTestType /\ ~isLoading

fileIds(files) == {files[i] : i \in 1..Len(files)}

filter(files, id) == SelectSeq(files, LAMBDA f : f # id)

handleFilesChange(files) ==
  /\ uploadedFiles' = files
  /\ error' = NoError
  /\ UNCHANGED <<testType, projectInfo, readings, autoDetectCycles,
                 currentStep, isLoading, requests, route, cell, edits>>

processFiles(validFiles) ==
  /\ route = "/"
  /\ IF Len(uploadedFiles) + Len(validFiles) > maxFiles
     THEN UNCHANGED vars
     ELSE handleFilesChange(uploadedFiles \o validFiles)

removeFile(id) ==
  /\ route = "/"
  /\ id \in fileIds(uploadedFiles)
  /\ handleFilesChange(filter(uploadedFiles, id))

removeAll ==
  /\ route = "/"
  /\ Len(uploadedFiles) > 1
  /\ handleFilesChange(<<>>)

handleTestTypeChange(type) ==
  /\ route = "/"
  /\ testType' = type
  /\ UNCHANGED <<uploadedFiles, projectInfo, readings, autoDetectCycles,
                 currentStep, isLoading, error, requests, route, cell,
                 edits>>

Pending == {r \in 1..Len(requests) : requests[r] = "pending"}

handleExtract_ignoresLoading ==
  /\ route = "/"
  /\ Len(requests) < MaxRequests
  /\ IF ~(Len(uploadedFiles) > 0 /\ testType # NoTestType)
     THEN UNCHANGED vars
     ELSE /\ isLoading' = TRUE
          /\ error' = NoError
          /\ requests' = Append(requests, "pending")
          /\ UNCHANGED <<uploadedFiles, testType, projectInfo, readings,
                         autoDetectCycles, currentStep, route, cell, edits>>

handleExtract ==
  /\ route = "/"
  /\ Len(requests) < MaxRequests
  /\ IF ~canProceed
     THEN UNCHANGED vars
     ELSE /\ isLoading' = TRUE
          /\ error' = NoError
          /\ requests' = Append(requests, "pending")
          /\ UNCHANGED <<uploadedFiles, testType, projectInfo, readings,
                         autoDetectCycles, currentStep, route, cell, edits>>

(* New readings carry new ids, so a reading cell in edit mode unmounts;    *)
(* a project cell is keyed by its field and stays mounted.                 *)
extractResolved(request, data) ==
  /\ request \in Pending
  /\ requests' = [requests EXCEPT ![request] = "fulfilled"]
  /\ projectInfo' = transformProjectInfo(data.project_info)
  /\ readings' = setReadings(transformReadings(data.readings, request))
  /\ currentStep' = "verify"
  /\ route' = "/verify"
  /\ isLoading' = FALSE
  /\ cell' = IF cell # NoCell /\ cell.target.kind = "reading"
             THEN NoCell ELSE cell
  /\ UNCHANGED <<uploadedFiles, testType, autoDetectCycles, error, edits>>

extractRejected_keepsLoading(request, message) ==
  /\ request \in Pending
  /\ requests' = [requests EXCEPT ![request] = "rejected"]
  /\ error' = message
  /\ UNCHANGED <<uploadedFiles, testType, projectInfo, readings,
                 autoDetectCycles, currentStep, isLoading, route, cell,
                 edits>>

extractRejected(request, message) ==
  /\ request \in Pending
  /\ requests' = [requests EXCEPT ![request] = "rejected"]
  /\ error' = message
  /\ isLoading' = FALSE
  /\ UNCHANGED <<uploadedFiles, testType, projectInfo, readings,
                 autoDetectCycles, currentStep, route, cell, edits>>

----------------------------------------------------------------------------
(* Verify page *)

verifyRendered ==
  route = "/verify" /\ ~(projectInfo = NoProjectInfo /\ Len(readings) = 0)

(* getLowConfidenceCount: forEach over the project fields, then over six   *)
(* keys of every reading, count++ on a non-null value of low confidence    *)
needsAttention_ignoresValue(field) ==
  getConfidenceLevel(field.confidence) = "low"

needsAttention(field) ==
  field.value # Null /\ getConfidenceLevel(field.confidence) = "low"

countedKeys == <<"time", "pressure", "gauge1", "gauge2", "gauge3", "gauge4">>

RECURSIVE forEachField(_, _, _)
forEachField(object, keys, count) ==
  IF Len(keys) = 0 THEN count
  ELSE forEachField(object, Tail(keys),
                    IF needsAttention(object[Head(keys)])
                    THEN count + 1 ELSE count)

RECURSIVE forEachReading(_, _)
forEachReading(rs, count) ==
  IF Len(rs) = 0 THEN count
  ELSE forEachReading(Tail(rs), forEachField(Head(rs), countedKeys, count))

getLowConfidenceCountOf(info, rs) ==
  forEachReading(rs,
    IF info = NoProjectInfo THEN 0
    ELSE forEachField(info, [i \in 1..Len(PROJECT_KEYS) |-> PROJECT_KEYS[i][1]],
                      0))

getLowConfidenceCount == getLowConfidenceCountOf(projectInfo, readings)

redirectToUpload ==
  /\ route = "/verify"
  /\ projectInfo = NoProjectInfo
  /\ Len(readings) = 0
  /\ route' = "/"
  /\ cell' = NoCell
  /\ UNCHANGED <<uploadedFiles, testType, projectInfo, readings,
                 autoDetectCycles, currentStep, isLoading, error, requests,
                 edits>>

backToUpload ==
  /\ verifyRendered
  /\ cell = NoCell
  /\ route' = "/"
  /\ cell' = NoCell
  /\ UNCHANGED <<uploadedFiles, testType, projectInfo, readings,
                 autoDetectCycles, currentStep, isLoading, error, requests,
                 edits>>

handleProceed ==
  /\ verifyRendered
  /\ cell = NoCell
  /\ currentStep' = "report"
  /\ route' = "/report"
  /\ cell' = NoCell
  /\ UNCHANGED <<uploadedFiles, testType, projectInfo, readings,
                 autoDetectCycles, isLoading, error, requests, edits>>

toggleAutoDetect(enabled) ==
  /\ verifyRendered
  /\ cell = NoCell
  /\ Len(readings) > 0
  /\ setAutoDetectCycles(enabled)

----------------------------------------------------------------------------
(* Field edits: the store's two update actions and the editable cell *)

COLUMNS ==
  << [key |-> "time", type |-> "text"],
     [key |-> "pressure", type |-> "number"],
     [key |-> "gauge1", type |-> "number"],
     [key |-> "gauge2", type |-> "number"],
     [key |-> "gauge3", type |-> "number"],
     [key |-> "gauge4", type |-> "number"],
     [key |-> "remark", type |-> "text"] >>

columnType(key) ==
  COLUMNS[CHOOSE i \in 1..Len(COLUMNS) : COLUMNS[i].key = key].type

OCRFields ==
  {"date", "time", "pressure", "gauge1", "gauge2", "gauge3", "gauge4",
   "remark"}

updateProjectField(info, field, value) ==
  IF info = NoProjectInfo THEN info
  ELSE [info EXCEPT ![field] = OCRValue(value, FullConfidence)]

updateReadingField_everyReading(rs, id, field, value) ==
  [i \in 1..Len(rs) |->
     IF field \in OCRFields
     THEN [rs[i] EXCEPT ![field] = OCRValue(value, FullConfidence)]
     ELSE [rs[i] EXCEPT ![field] = value]]

updateReadingField(rs, id, field, value) ==
  [i \in 1..Len(rs) |->
     IF rs[i].id # id THEN rs[i]
     ELSE IF field \in OCRFields
          THEN [rs[i] EXCEPT ![field] = OCRValue(value, FullConfidence)]
          ELSE [rs[i] EXCEPT ![field] = value]]

(* The two edit actions of the store, as any caller may invoke them *)
setProjectField(field, value) ==
  /\ edits < MaxEdits
  /\ projectInfo' = updateProjectField(projectInfo, field, value)
  /\ edits' = edits + 1
  /\ UNCHANGED <<uploadedFiles, testType, readings, autoDetectCycles,
                 currentStep, isLoading, error, requests, route, cell>>

setReadingField(id, field, value) ==
  /\ edits < MaxEdits
  /\ readings' = updateReadingField(readings, id, field, value)
  /\ edits' = edits + 1
  /\ UNCHANGED <<uploadedFiles, testType, projectInfo, autoDetectCycles,
                 currentStep, isLoading, error, requests, route, cell>>

projectTarget(field) == [kind |-> "project", field |-> field]

readingTarget(id, key) == [kind |-> "reading", id |-> id, field |-> key]

FIELD_CONFIGS ==
  <<"testNo", "testType", "project", "location", "contractor", "clientName",
    "pileDiameter", "pileDepth", "designLoad", "testLoad", "ramArea",
    "lcDialGauge", "dateOfCasting", "mixedDesign">>

ProjectCells ==
  {FIELD_CONFIGS[i] : i \in 1..Len(FIELD_CONFIGS)}
  \cap {FIELD_CONFIGS[i] : i \in 1..MaxProjectCells}

Targets ==
  {projectTarget(f) : f \in IF projectInfo = NoProjectInfo THEN {}
                             ELSE ProjectCells}
  \cup {readingTarget(readings[i].id, COLUMNS[c].key) :
          i \in 1..Len(readings), c \in 1..Len(COLUMNS)}

cellType(target) ==
  IF target.kind = "project" THEN "text" ELSE columnType(target.field)

cellValue(target) ==
  IF target.kind = "project" THEN projectInfo[target.field]
  ELSE LET i == CHOOSE j \in 1..Len(readings) : readings[j].id = target.id
       IN readings[i][target.field]

confidenceLevel(target) == getConfidenceLevel(cellValue(target).confidence)

displayString(v) == IF v = Null THEN <<>> ELSE toString(v)

(* What can be typed into a cell.  A number input hands over either the    *)
(* empty string or a well-formed number; the numbers here are integers, so *)
(* parseFloat never meets a fraction or an exponent.                       *)
TextInputs ==
  {<<>>, <<" ">>, <<"H", "o", "l", "d">>, <<" ", "o", "k">>}

NumberInputs == {<<>>, <<"2">>, <<"-", "1", "0">>}

inputsOf(type) == IF type = "number" THEN NumberInputs ELSE TextInputs

(* The computed column of the readings table.  avg is the quotient of two *)
(* integers, kept as sum and count; toFixed rounds its magnitude to the    *)
(* nearest hundredth and writes the sign of a negative number first.       *)
gaugeValues(reading) ==
  SelectSeq(<<reading.gauge1.value, reading.gauge2.value,
              reading.gauge3.value, reading.gauge4.value>>,
            LAMBDA v : v # Null)

RECURSIVE reduce(_)
reduce(values) ==
  IF Len(values) = 0 THEN 0 ELSE Head(values).n + reduce(Tail(values))

toFixed(sum, count) ==
  LET mag  == IF sum < 0 THEN 0 - sum ELSE sum
      h    == (200 * mag + count) \div (2 * count)
      frac == h % 100
  IN (IF sum < 0 THEN <<"-">> ELSE <<>>)
     \o natToString(h \div 100) \o <<".">>
     \o <<Digits[(frac \div 10) + 1], Digits[(frac % 10) + 1]>>

(* The one character U+2014 (em dash) *)
NoValue == <<"EM DASH">>

calculateAvgSettlement_dividesByFour(reading) ==
  toFixed(reduce(gaugeValues(reading)), 4)

calculateAvgSettlement(reading) ==
  LET values == gaugeValues(reading)
  IN IF Len(values) = 0 THEN NoValue
     ELSE toFixed(reduce(values), Len(values))

(* The derived results of the report.  A settlement is the quotient of two *)
(* integers, kept as num and den (den > 0), or Null when it is undefined.  *)
Ratio(num, den) == [num |-> num, den |-> den]

avgSettlement(reading) ==
  LET values == gaugeValues(reading)
  IN IF Len(values) = 0 THEN Null ELSE Ratio(reduce(values), Len(values))

minus(a, b) == Ratio(a.num * b.den - b.num * a.den, a.den * b.den)

FullUnloads(rs) ==
  {i \in 1..Len(rs) :
     /\ rs[i].cycle = "unloading"
     /\ rs[i].pressure.value # Null
     /\ \A k \in 1..Len(rs) :
          rs[k].pressure.value # Null =>
            rs[i].pressure.value.n <= rs[k].pressure.value.n}

finalSettlement(rs) ==
  IF FullUnloads(rs) = {} THEN Null
  ELSE avgSettlement(rs[CHOOSE i \in FullUnloads(rs) :
                          \A k \in FullUnloads(rs) : k <= i])

initialSettlement(rs) == IF Len(rs) = 0 THEN Null ELSE avgSettlement(rs[1])

netSettlement(rs) ==
  IF finalSettlement(rs) = Null \/ initialSettlement(rs) = Null THEN Null
  ELSE minus(finalSettlement(rs), initialSettlement(rs))

VerticalTests == {"IVPLT", "RVPLT"}

NetSettlementLimit == 12

passFail_exclusive(net, type) ==
  IF net = Null THEN "UNDETERMINED"
  ELSE IF net.num < NetSettlementLimit * net.den THEN "PASS" ELSE "FAIL"

(* Defined for the vertical tests *)
passFail(net, type) ==
  IF net = Null THEN "UNDETERMINED"
  ELSE IF net.num <= NetSettlementLimit * net.den THEN "PASS" ELSE "FAIL"

status == passFail(netSettlement(readings), testType)

handleClick(target) ==
  /\ verifyRendered
  /\ cell = NoCell
  /\ edits < MaxEdits
  /\ target \in Targets
  /\ cell' = [target |-> target,
              editValue |-> displayString(cellValue(target).value)]
  /\ UNCHANGED <<uploadedFiles, testType, projectInfo, readings,
                 autoDetectCycles, currentStep, isLoading, error, requests,
                 route, edits>>

setEditValue(raw) ==
  /\ cell # NoCell
  /\ raw \in inputsOf(cellType(cell.target))
  /\ cell' = [cell EXCEPT !.editValue = raw]
  /\ UNCHANGED <<uploadedFiles, testType, projectInfo, readings,
                 autoDetectCycles, currentStep, isLoading, error, requests,
                 route, edits>>

newValue_keepsNaN(type, editValue) ==
  IF type = "number" THEN parseFloat(editValue)
  ELSE IF trim(editValue) = <<>> THEN Null ELSE Str(trim(editValue))

newValue(type, editValue) ==
  IF type = "number"
  THEN IF parseFloat(editValue) = NaN THEN Null ELSE parseFloat(editValue)
  ELSE IF trim(editValue) = <<>> THEN Null ELSE Str(trim(editValue))

onChange(target, value) ==
  IF target.kind = "project"
  THEN /\ projectInfo' = updateProjectField(projectInfo, target.field, value)
       /\ UNCHANGED readings
  ELSE /\ readings' = updateReadingField(readings, target.id, target.field,
                                         value)
       /\ UNCHANGED projectInfo

handleBlur_alwaysCommits ==
  /\ cell # NoCell
  /\ cell' = NoCell
  /\ edits < MaxEdits
  /\ onChange(cell.target, newValue(cellType(cell.target), cell.editValue))
  /\ edits' = edits + 1
  /\ UNCHANGED <<uploadedFiles, testType, autoDetectCycles, currentStep,
                 isLoading, error, requests, route>>

(* A commit that changes the store counts against MaxEdits, and no cell   *)
(* is opened once MaxEdits is reached; a commit of the value the field   *)
(* already holds does not count, so it can be repeated.                  *)
handleBlur ==
  /\ cell # NoCell
  /\ cell' = NoCell
  /\ LET value == newValue(cellType(cell.target), cell.editValue)
     IN IF value # cellValue(cell.target).value
        THEN /\ edits < MaxEdits
             /\ onChange(cell.target, value)
             /\ edits' = edits + 1
        ELSE UNCHANGED <<projectInfo, readings, edits>>
  /\ UNCHANGED <<uploadedFiles, testType, autoDetectCycles, currentStep,
                 isLoading, error, requests, route>>

handleKeyDown_escapeSaves(key) ==
  key \in {"Enter", "Escape"} /\ handleBlur

handleKeyDown(key) ==
  IF key = "Enter" THEN handleBlur
  ELSE /\ key = "Escape"
       /\ cell # NoCell
       /\ cell' = NoCell
       /\ UNCHANGED <<uploadedFiles, testType, projectInfo, readings,
                      autoDetectCycles, currentStep, isLoading, error,
                      requests, route, edits>>

----------------------------------------------------------------------------
(* The extraction collaborator's answers *)

RawReadingA ==
  [time     |-> [value |-> Str(<<"9">>), confidence |-> 740],
   pressure |-> [value |-> Num(1), confidence |-> 900],
   gauge1   |-> [value |-> Num(5), confidence |-> 500],
   gauge2   |-> [value |-> Str(<<"x">>), confidence |-> 800]]

RawReadingB ==
  [date     |-> [value |-> Num(7)],
   pressure |-> [value |-> Num(1), confidence |-> 600],
   gauge1   |-> [value |-> Null, confidence |-> 300],
   remark   |-> [value |-> Str(<<"H", "o", "l", "d">>), confidence |-> 800]]

RawReadings == {RawReadingA, RawReadingB}

RawProjectA ==
  [test_no  |-> [value |-> Num(4), confidence |-> 900],
   project  |-> [value |-> Str(<<" ", "a">>), confidence |-> 500],
   location |-> [value |-> Null, confidence |-> 800]]

RawProjectB == [test_no |-> [value |-> Str(<<"T">>)]]

RawProjects == {RawProjectA, RawProjectB}

RawBatches == UNION {[1..n -> RawReadings] : n \in 0..MaxBatch}

RawResponses ==
  {[project_info |-> RawProjectA, readings |-> rs] : rs \in RawBatches}

ErrorMessages ==
  {"Cannot connect to OCR server", "OCR extraction failed with status 500"}

FileIds == 1..MaxFiles

ValidFiles(files) ==
  {<<>>} \cup {<<f>> : f \in FileIds \ fileIds(files)}

----------------------------------------------------------------------------
(* The program: pages, in-flight extraction calls and the cell *)

Init ==
  /\ initialState
  /\ requests = <<>>
  /\ route \in {"/", "/verify"}
  /\ cell = NoCell
  /\ edits = 0

UploadPage ==
  \/ \E validFiles \in ValidFiles(uploadedFiles) : processFiles(validFiles)
  \/ \E id \in FileIds : removeFile(id)
  \/ removeAll
  \/ \E type \in TestTypes : handleTestTypeChange(type)
  \/ handleExtract

Extraction ==
  \/ \E request \in Pending, data \in RawResponses :
       extractResolved(request, data)
  \/ \E request \in Pending, message \in ErrorMessages :
       extractRejected(request, message)

VerifyPage ==
  \/ redirectToUpload
  \/ backToUpload
  \/ handleProceed

Next == UploadPage \/ Extraction \/ VerifyPage

Spec == Init /\ [][Next]_vars

(* The same program when every extraction call settles: the awaited fetch *)
(* resolves or rejects, and its continuation then runs                     *)

SpecLive == Init /\ [][Next]_vars /\ WF_vars(Extraction)

(* The same program with the store's own actions callable at any time *)

StoreActions ==
  \/ reset
  \/ \E step \in {"upload", "verify", "report"} : setStep(step)

NextStore == Next \/ StoreActions

SpecStore == Init /\ [][NextStore]_vars

(* The verify page right after a successful extraction: cells and toggle *)

InitVerify ==
  /\ uploadedFiles = <<1>>
  /\ testType = "IVPLT"
  /\ autoDetectCycles = TRUE
  /\ projectInfo \in {transformProjectInfo(p) : p \in RawProjects}
  /\ readings \in {detectCyclesOf(transformReadings(rs, 1)) : rs \in RawBatches}
  /\ currentStep = "verify"
  /\ isLoading = FALSE
  /\ error = NoError
  /\ requests = <<"fulfilled">>
  /\ route = "/verify"
  /\ cell = NoCell
  /\ edits = 0

Cell ==
  \/ \E target \in Targets : handleClick(target)
  \/ \E raw \in TextInputs \cup NumberInputs : setEditValue(raw)
  \/ handleBlur
  \/ \E key \in {"Enter", "Escape"} : handleKeyDown(key)

NextVerify ==
  \/ Cell
  \/ \E enabled \in BOOLEAN : toggleAutoDetect(enabled)

SpecVerify == InitVerify /\ [][NextVerify]_vars

(* The verify page with the store's phase actions callable: a manual phase *)
(* written through updateReading, a direct detectCycles, and a second      *)
(* extraction from the upload page.                                        *)

Cycles == {"loading", "unloading", "holding"}

CycleUpdates == {[cycle |-> c] : c \in Cycles}

ReadingIds == {readings[i].id : i \in 1..Len(readings)}

NextPhases ==
  \/ Cell
  \/ \E enabled \in BOOLEAN : toggleAutoDetect(enabled)
  \/ \E id \in ReadingIds, updates \in CycleUpdates :
       updateReading(id, updates)
  \/ detectCycles
  \/ backToUpload
  \/ handleExtract
  \/ Extraction

SpecPhases == InitVerify /\ [][NextPhases]_vars

(* The same with the step changes: the Generate Report button and setStep *)

Steps == {"upload", "verify", "report"}

NextOrder ==
  \/ NextPhases
  \/ handleProceed
  \/ \E step \in Steps : setStep(step)

SpecOrder == InitVerify /\ [][NextOrder]_vars

(* The store's edit actions called directly, on a fresh store or after an *)
(* extraction, with ids the store holds and one it does not                *)

UnknownId == <<"reading", MaxBatch, 0>>

EditValues == {Null, Num(2), Str(<<"o", "k">>)}

InitEdits ==
  \/ InitVerify
  \/ Init /\ route = "/"

NextEdits ==
  \/ \E field \in ProjectFields, value \in EditValues :
       setProjectField(field, value)
  \/ \E id \in ReadingIds \cup {UnknownId}, field \in OCRFields,
        value \in EditValues :
       setReadingField(id, field, value)

SpecEdits == InitEdits /\ [][NextEdits]_vars

(* The confidence tiers of the cells: an extraction that found the header *)
(* only, with the confidence of the test number anywhere from 0 to 1.0,    *)
(* and the cell edits, which raise a confidence to 1.0.                    *)

Confidences == 0..FullConfidence

InitLevels ==
  /\ uploadedFiles = <<1>>
  /\ testType = "IVPLT"
  /\ autoDetectCycles = TRUE
  /\ projectInfo \in
       {transformProjectInfo(
          [test_no |-> [value |-> Num(4), confidence |-> c],
           project |-> [value |-> Str(<<"a">>), confidence |-> 849]]) :
          c \in Confidences}
  /\ readings = <<>>
  /\ currentStep = "verify"
  /\ isLoading = FALSE
  /\ error = NoError
  /\ requests = <<"fulfilled">>
  /\ route = "/verify"
  /\ cell = NoCell
  /\ edits = 0

SpecLevels == InitLevels /\ [][Cell]_vars

(* The computed column: one extracted reading whose four gauges are each  *)
(* missing, zero or five, and the cell edits.                              *)

GaugeInputs == {Null, Num(0), Num(5)}

RawReadingsGauges ==
  {[pressure |-> [value |-> Num(1), confidence |-> 900],
    gauge1   |-> [value |-> g[1], confidence |-> 900],
    gauge2   |-> [value |-> g[2], confidence |-> 800],
    gauge3   |-> [value |-> g[3], confidence |-> 700],
    gauge4   |-> [value |-> g[4], confidence |-> 600]] :
     g \in [1..4 -> GaugeInputs]}

InitGauges ==
  /\ uploadedFiles = <<1>>
  /\ testType = "IVPLT"
  /\ autoDetectCycles = TRUE
  /\ projectInfo = transformProjectInfo(RawProjectA)
  /\ readings \in {detectCyclesOf(transformReadings(<<raw>>, 1)) :
                     raw \in RawReadingsGauges}
  /\ currentStep = "verify"
  /\ isLoading = FALSE
  /\ error = NoError
  /\ requests = <<"fulfilled">>
  /\ route = "/verify"
  /\ cell = NoCell
  /\ edits = 0

SpecGauges == InitGauges /\ [][Cell]_vars

(* The report of a vertical test: a first reading under load and a second *)
(* after the unload, with settlements that put the net settlement below,   *)
(* at and above the limit or leave it undefined, and the cell edits.       *)

RawBatchesReport ==
  {<<[pressure |-> [value |-> Num(2), confidence |-> 900],
      gauge1   |-> [value |-> g[1], confidence |-> 900]],
     [pressure |-> [value |-> Num(1), confidence |-> 900],
      gauge1   |-> [value |-> g[2], confidence |-> 900],
      gauge2   |-> [value |-> g[3], confidence |-> 800]]>> :
     g \in [1..3 -> {Null, Num(0), Num(1), Num(12), Num(13)}]}

InitReport ==
  /\ uploadedFiles = <<1>>
  /\ testType \in VerticalTests
  /\ autoDetectCycles = TRUE
  /\ projectInfo = NoProjectInfo
  /\ readings \in {detectCyclesOf(transformReadings(raw, 1)) :
                     raw \in RawBatchesReport}
  /\ currentStep = "verify"
  /\ isLoading = FALSE
  /\ error = NoError
  /\ requests = <<"fulfilled">>
  /\ route = "/verify"
  /\ cell = NoCell
  /\ edits = 0

SpecReport == InitReport /\ [][Cell]_vars

(* The store's phase actions on their own, on extracted readings whose     *)
(* pressures rise, fall, repeat or are missing.                            *)

RawReadingsCycles ==
  {[pressure |-> [value |-> p, confidence |-> 900],
    remark   |-> [value |-> r, confidence |-> 800]] :
     p \in {Null, Num(1), Num(2)}, r \in {Null, Str(<<"H", "o", "l", "d">>)}}

RawBatchesCycles == UNION {[1..n -> RawReadingsCycles] : n \in 0..MaxBatch}

InitCycles ==
  /\ uploadedFiles = <<1>>
  /\ testType = "IVPLT"
  /\ autoDetectCycles = TRUE
  /\ projectInfo = transformProjectInfo(RawProjectA)
  /\ readings \in {detectCyclesOf(transformReadings(raw, 1)) :
                     raw \in RawBatchesCycles}
  /\ currentStep = "verify"
  /\ isLoading = FALSE
  /\ error = NoError
  /\ requests = <<"fulfilled">>
  /\ route = "/verify"
  /\ cell = NoCell
  /\ edits = 0

NextCycles ==
  \/ detectCycles
  \/ \E enabled \in BOOLEAN : setAutoDetectCycles(enabled)
  \/ \E id \in ReadingIds, updates \in CycleUpdates :
       updateReading(id, updates)

SpecCycles == InitCycles /\ [][NextCycles]_vars

----------------------------------------------------------------------------
(* Phase inference on its own: the readings are what transformReadings     *)
(* yields for a batch whose pressures and remarks range over bounded sets; *)
(* the actions apply detectCycles.                                         *)

PressureInputs == {Null} \cup {Num(p) : p \in 1..MaxPressure}

RemarkInputs == {Null, Str(<<"H", "o", "l", "d">>), Str(<<"o", "k">>)}

RawReadingsDC ==
  {[pressure |-> [value |-> p, confidence |-> 900],
    remark   |-> [value |-> r, confidence |-> 800],
    time     |-> [value |-> Str(<<"9">>), confidence |-> 700]] :
     p \in PressureInputs, r \in RemarkInputs}

RawBatchesDC == UNION {[1..n -> RawReadingsDC] : n \in 0..MaxLen}

RawProjectDC == [test_no |-> [value |-> Num(4), confidence |-> 900]]

InitDC ==
  /\ uploadedFiles = <<1>>
  /\ testType = "IVPLT"
  /\ projectInfo = transformProjectInfo(RawProjectDC)
  /\ readings \in {transformReadings(raw, 1) : raw \in RawBatchesDC}
  /\ autoDetectCycles = FALSE
  /\ currentStep = "verify"
  /\ isLoading = FALSE
  /\ error = NoError
  /\ requests = <<"fulfilled">>
  /\ route = "/verify"
  /\ cell = NoCell
  /\ edits = 0

NextDC ==
  \/ detectCycles
  \/ \E enabled \in BOOLEAN : setAutoDetectCycles(enabled)

SpecDC == InitDC /\ [][NextDC]_vars

----------------------------------------------------------------------------
(* Vocabulary of the phase claims *)

Detected ==
  /\ Len(readings) > 0
  /\ \A i \in 1..Len(readings) : readings[i].cycle # NoCycle

pressureAt(i) == readings[i].pressure.value

AllPressuresPresent == \A i \in 1..Len(readings) : pressureAt(i) # Null

StrictlyIncreasing ==
  /\ AllPressuresPresent
  /\ \A i \in 2..Len(readings) : pressureAt(i).n > pressureAt(i - 1).n

StrictlyDecreasing ==
  /\ AllPressuresPresent
  /\ \A i \in 2..Len(readings) : pressureAt(i).n < pressureAt(i - 1).n

EarlierPresent(i) == {j \in 1..(i - 1) : pressureAt(j) # Null}

NearestEarlier(i) ==
  CHOOSE j \in EarlierPresent(i) : \A m \in EarlierPresent(i) : m <= j

Compared(p, q) ==
  IF p.n > q.n THEN "loading"
  ELSE IF p.n < q.n THEN "unloading" ELSE "holding"

HasHoldRemark(i) ==
  /\ readings[i].remark.value # Null
  /\ \E a \in 1..Len(readings[i].remark.value.s) :
       \E b \in a..Len(readings[i].remark.value.s) :
          toLowerCase(SubSeq(readings[i].remark.value.s, a, b)) = hold

(* C7 as written: after detectCycles, strictly increasing pressures are    *)
(* all 'loading' and strictly decreasing pressures are all 'unloading',    *)
(* the first reading included.                                             *)
C7_AsWritten ==
  Detected =>
    /\ StrictlyIncreasing =>
         \A i \in 1..Len(readings) : readings[i].cycle = "loading"
    /\ StrictlyDecreasing =>
         \A i \in 1..Len(readings) : readings[i].cycle = "unloading"

(* C7 amended: after detectCycles, strictly increasing pressures are all   *)
(* 'loading'; strictly decreasing pressures are 'unloading' from the       *)
(* second reading on, and the first reading is 'loading'.                  *)
C7_Monotonic ==
  Detected =>
    /\ StrictlyIncreasing =>
         \A i \in 1..Len(readings) : readings[i].cycle = "loading"
    /\ StrictlyDecreasing =>
         /\ readings[1].cycle = "loading"
         /\ \A i \in 2..Len(readings) : readings[i].cycle = "unloading"

C7_Witness ==
  /\ Detected
  /\ Len(readings) = 3
  /\ StrictlyDecreasing
  /\ readings[3].cycle = "unloading"

(* C8 as written: two consecutive readings with equal non-null pressure,   *)
(* the earlier with a hold remark and the later without, are both          *)
(* 'holding' after detectCycles.                                           *)
C8_AsWritten ==
  Detected =>
    \A i \in 2..Len(readings) :
      ( /\ pressureAt(i) # Null
        /\ pressureAt(i) = pressureAt(i - 1)
        /\ HasHoldRemark(i - 1)
        /\ ~HasHoldRemark(i) )
      => /\ readings[i - 1].cycle = "holding"
         /\ readings[i].cycle = "holding"

(* C8 amended: in that case the later reading is 'holding'; the earlier    *)
(* reading's own hold remark does not make it 'holding': when it is the    *)
(* first reading it is 'loading'.                                          *)
C8_HoldPair ==
  Detected =>
    \A i \in 2..Len(readings) :
      ( /\ pressureAt(i) # Null
        /\ pressureAt(i) = pressureAt(i - 1)
        /\ HasHoldRemark(i - 1)
        /\ ~HasHoldRemark(i) )
      => /\ readings[i].cycle = "holding"
         /\ (i = 2 => readings[1].cycle = "loading")

C8_Witness ==
  /\ Detected
  /\ Len(readings) = 2
  /\ pressureAt(1) = Num(2)
  /\ pressureAt(2) = Num(2)
  /\ HasHoldRemark(1)
  /\ readings[2].remark.value = Null
  /\ readings[2].cycle = "holding"

(* C9: after detectCycles, a reading with a pressure and with an earlier   *)
(* reading that has a pressure is 'loading', 'unloading' or 'holding' as   *)
(* its pressure is above, below or equal to the nearest earlier pressure.  *)
C9_TrendRule ==
  Detected =>
    \A i \in 1..Len(readings) :
      (pressureAt(i) # Null /\ EarlierPresent(i) # {})
      => readings[i].cycle =
           Compared(pressureAt(i), pressureAt(NearestEarlier(i)))

C9_Witness ==
  /\ Detected
  /\ Len(readings) = 3
  /\ pressureAt(1) = Num(1)
  /\ pressureAt(2) = Num(3)
  /\ pressureAt(3) = Num(3)
  /\ readings[2].cycle = "loading"
  /\ readings[3].cycle = "holding"

(* C10: after detectCycles, a reading without a pressure has the phase of  *)
(* the reading before it ('loading' when it is first), and the reading     *)
(* after a gap is compared with the last pressure seen before the gap.     *)
C10_NullCarry ==
  Detected =>
    \A i \in 1..Len(readings) :
      /\ pressureAt(i) = Null =>
           readings[i].cycle =
             IF i = 1 THEN "loading" ELSE readings[i - 1].cycle
      /\ ( /\ i > 1
           /\ pressureAt(i) # Null
           /\ pressureAt(i - 1) = Null
           /\ EarlierPresent(i) # {} )
         => readings[i].cycle =
              Compared(pressureAt(i), pressureAt(NearestEarlier(i)))

C10_Witness ==
  /\ Detected
  /\ Len(readings) = 3
  /\ pressureAt(1) = Num(2)
  /\ pressureAt(2) = Null
  /\ pressureAt(3) = Num(1)
  /\ readings[2].cycle = "loading"
  /\ readings[3].cycle = "unloading"

(* C11: after detectCycles, every reading with no earlier reading that has *)
(* a pressure is 'loading': the readings up to and including the first one *)
(* with a pressure, hence a single reading, and every reading of a series  *)
(* without any pressure.                                                   *)
C11_DefaultStart ==
  Detected =>
    \A i \in 1..Len(readings) :
      EarlierPresent(i) = {} => readings[i].cycle = "loading"

C11_Witness ==
  /\ Detected
  /\ Len(readings) = 3
  /\ pressureAt(1) = Null
  /\ pressureAt(2) = Num(2)
  /\ pressureAt(3) = Num(1)
  /\ HasHoldRemark(2)
  /\ readings[1].cycle = "loading"
  /\ readings[2].cycle = "loading"
  /\ readings[3].cycle = "unloading"

NoCycles == \A i \in 1..Len(readings) : readings[i].cycle = NoCycle

Stripped(rs) == [i \in 1..Len(rs) |-> [rs[i] EXCEPT !.cycle = NoCycle]]

(* C12: a detectCycles step keeps the number, the order, the ids and every *)
(* {value, confidence} pair of the readings, puts a phase on every reading *)
(* of a non-empty list whatever cycle it carried before, leaves every      *)
(* other store field as it is, and changes nothing on an empty list.       *)
C12_DetectFrame ==
  [][detectCycles =>
       /\ Len(readings') = Len(readings)
       /\ \A i \in 1..Len(readings) :
            /\ DOMAIN readings'[i] = DOMAIN readings[i]
            /\ \A f \in DOMAIN readings[i] \ {"cycle"} :
                 readings'[i][f] = readings[i][f]
            /\ readings'[i].cycle \in Cycles
       /\ Len(readings) = 0 => readings' = readings
       /\ readings' = detectCyclesOf(Stripped(readings))
       /\ UNCHANGED <<uploadedFiles, testType, projectInfo,
                      autoDetectCycles, currentStep, isLoading, error>>]_vars

C12_Witness ==
  /\ ~autoDetectCycles
  /\ edits = 1
  /\ Len(readings) = 2
  /\ pressureAt(1) = Null
  /\ pressureAt(2) = Null
  /\ readings[1].cycle = "loading"
  /\ readings[2].cycle = "loading"

(* C13 as written: whenever autoDetectCycles is false, and so right after  *)
(* setAutoDetectCycles(false), no reading has a cycle.                     *)
C13_AsWritten == ~autoDetectCycles => NoCycles

(* C13 amended: the step that switches autoDetectCycles off leaves every   *)
(* cycle absent, and while it stays off the cycles stay absent through     *)
(* every step (cell edits, extractions, navigation) other than an explicit *)
(* phase write: updateReading with a cycle, or a direct detectCycles.      *)
C13_OffAbsent ==
  [][/\ (autoDetectCycles /\ ~autoDetectCycles') => NoCycles'
     /\ ( /\ ~autoDetectCycles
          /\ ~autoDetectCycles'
          /\ NoCycles
          /\ ~detectCycles
          /\ ~\E id \in ReadingIds, updates \in CycleUpdates :
                updateReading(id, updates) )
        => NoCycles']_vars

C13_Witness ==
  /\ ~autoDetectCycles
  /\ Len(requests) = 2
  /\ requests[2] = "fulfilled"
  /\ Len(readings) = 2
  /\ edits = 1
  /\ readings[1].pressure.confidence = FullConfidence
  /\ NoCycles

(* C14: the step that switches autoDetectCycles on leaves the readings     *)
(* with the cycles detectCycles derives from them with every earlier cycle *)
(* removed, so earlier cycles, manual ones included, have no influence.    *)
C14_ReenableRecomputes ==
  [][(~autoDetectCycles /\ autoDetectCycles')
     => readings' = detectCyclesOf(Stripped(readings))]_vars

C14_Witness ==
  /\ autoDetectCycles
  /\ edits = 1
  /\ Len(readings) = 2
  /\ pressureAt(1) = Num(2)
  /\ pressureAt(2) = Num(1)
  /\ readings[1].cycle = "loading"
  /\ readings[2].cycle = "unloading"

----------------------------------------------------------------------------
(* Edits, stage guards and the extraction call *)

(* C1: while autoDetectCycles is on and no cell is being edited, no        *)
(* reading carries a stale phase: its cycle is absent or is the one        *)
(* detectCycles assigns from the current pressures and remarks.            *)
C1_NoStalePhase ==
  (autoDetectCycles /\ cell = NoCell) =>
    \A i \in 1..Len(readings) :
      readings[i].cycle \in {NoCycle, detectCyclesOf(readings)[i].cycle}

(* C2: every commit of a cell (blur or Enter), whatever the raw input,     *)
(* leaves the edited field with confidence 1.0 in the store.               *)
C2_CommitPromotes ==
  [][\A t \in Targets :
       (cell # NoCell /\ cell.target = t /\ handleBlur)
       => (cellValue(t).confidence = FullConfidence)']_vars

(* C3: the report step is never current while there are no readings.       *)
C3_ReportNeedsReadings == currentStep = "report" => Len(readings) > 0

(* C4: whenever currentStep goes from 'upload' to 'verify', a file is      *)
(* uploaded, a test type is selected and projectInfo is populated in the   *)
(* state where the change happens.                                         *)
C4_VerifyGuard ==
  [][(currentStep = "upload" /\ currentStep' = "verify")
     => /\ Len(uploadedFiles') > 0
        /\ testType' # NoTestType
        /\ projectInfo' # NoProjectInfo]_vars

(* C5: when a request settles after a newer request has already committed  *)
(* its result, projectInfo, readings, currentStep, error and isLoading     *)
(* stay as they are.                                                       *)
C5_StaleIgnored ==
  [][\A a \in 1..Len(requests) :
       ( /\ requests[a] = "pending"
         /\ requests'[a] # "pending"
         /\ \E b \in (a + 1)..Len(requests) : requests[b] = "fulfilled" )
       => UNCHANGED <<projectInfo, readings, currentStep, error,
                      isLoading>>]_vars

(* C6: starting an extraction and its rejection both leave projectInfo,    *)
(* readings, uploadedFiles, testType and currentStep as they are; the      *)
(* rejection leaves a message in error and isLoading false, so that        *)
(* handleExtract is open again whenever files and a test type are there.   *)
C6_FailedExtraction ==
  [][/\ Len(requests') > Len(requests)
        => UNCHANGED <<projectInfo, readings, uploadedFiles, testType,
                       currentStep>>
     /\ \A a \in 1..Len(requests) :
          (requests[a] = "pending" /\ requests'[a] = "rejected")
          => /\ UNCHANGED <<projectInfo, readings, uploadedFiles, testType,
                            currentStep>>
             /\ error' # NoError
             /\ isLoading' = FALSE
             /\ canProceed' <=>
                  (Len(uploadedFiles') > 0 /\ testType' # NoTestType)]_vars

C6_Witness ==
  /\ \E a \in 1..Len(requests) : requests[a] = "rejected"
  /\ error # NoError
  /\ isLoading = FALSE
  /\ projectInfo = NoProjectInfo
  /\ Len(readings) = 0
  /\ currentStep = "upload"
  /\ canProceed

(* C15: a commit of a raw input leaves the field holding the value that   *)
(* input parses to, so the second of two commits of the same raw input to  *)
(* the same field is a commit whose parsed value is the one the field      *)
(* holds, and every such commit can be repeated at once.  Such a commit    *)
(* leaves the field's {value, confidence} as they are, at confidence 1.0.  *)
C15_Idempotent ==
  [][\A t \in Targets :
       ( /\ cell # NoCell
         /\ cell.target = t
         /\ newValue(cellType(t), cell.editValue) = cellValue(t).value
         /\ handleBlur )
       => /\ cellValue(t)' = cellValue(t)
          /\ (cellValue(t).confidence = FullConfidence)']_vars

(* C16: a commit whose parsed value is the value the field already holds  *)
(* does not reach the store: projectInfo, readings (values, confidences    *)
(* and cycles) and every other store field stay as they are.               *)
C16_NoOpEdit ==
  [][\A t \in Targets :
       ( /\ cell # NoCell
         /\ cell.target = t
         /\ newValue(cellType(t), cell.editValue) = cellValue(t).value
         /\ handleBlur )
       => UNCHANGED store]_vars

C16_Witness ==
  /\ cell # NoCell
  /\ cell.target.kind = "reading"
  /\ cell.target.field = "time"
  /\ cell.editValue = <<" ">>
  /\ cellValue(cell.target) = OCRValue(Null, 0)
  /\ ENABLED handleBlur

OthersUnchanged(t) ==
  /\ UNCHANGED <<uploadedFiles, testType, autoDetectCycles, currentStep,
                 isLoading, error>>
  /\ DOMAIN projectInfo' = DOMAIN projectInfo
  /\ \A f \in DOMAIN projectInfo :
       (t.kind = "project" /\ t.field = f) \/ projectInfo'[f] = projectInfo[f]
  /\ Len(readings') = Len(readings)
  /\ \A i \in 1..Len(readings) :
       /\ DOMAIN readings'[i] = DOMAIN readings[i]
       /\ \A f \in DOMAIN readings[i] :
            \/ t.kind = "reading" /\ t.id = readings[i].id /\ t.field = f
            \/ readings'[i][f] = readings[i][f]

(* C17: every commit closes the cell and leaves error as it is; the field  *)
(* then holds null when a numeric input does not parse or a text input is  *)
(* empty or blank, the parsed number or the trimmed text otherwise; and    *)
(* nothing else in the store changes.                                      *)
C17_InvalidAbsorbed ==
  [][\A t \in Targets :
       (cell # NoCell /\ cell.target = t /\ handleBlur)
       => /\ cell' = NoCell
          /\ error' = error
          /\ OthersUnchanged(t)
          /\ LET raw == cell.editValue
             IN IF cellType(t) = "number"
                THEN IF \E i \in 1..Len(raw) : isDigit(raw[i])
                     THEN cellValue(t)'.value = parseFloat(raw)
                     ELSE cellValue(t)'.value = Null
                ELSE IF \A i \in 1..Len(raw) : raw[i] \in Whitespace
                     THEN cellValue(t)'.value = Null
                     ELSE cellValue(t)'.value = Str(trim(raw))]_vars

C17_Witness ==
  /\ cell = NoCell
  /\ edits = 1
  /\ \E i \in 1..Len(readings) :
       /\ readings[i].pressure = OCRValue(Null, FullConfidence)
       /\ readings[i].cycle # NoCycle

(* C18: every step into the upload step, and every step back to the       *)
(* upload page, leaves the store equal to the initial state.               *)
C18_IntakeResets ==
  [][( \/ currentStep # "upload" /\ currentStep' = "upload"
       \/ route # "/" /\ route' = "/" )
     => initialState']_vars

StepRank(step) ==
  CASE step = "upload" -> 1 [] step = "verify" -> 2 [] step = "report" -> 3

(* C19: currentStep changes only from upload to verify, from verify to     *)
(* report, or backwards; any other requested change leaves it as it is.    *)
C19_LegalTransitions ==
  [][currentStep' # currentStep
     => \/ StepRank(currentStep') = StepRank(currentStep) + 1
        \/ StepRank(currentStep') < StepRank(currentStep)]_vars

----------------------------------------------------------------------------
(* Computed values, counts and the remaining frame conditions *)

GaugesPresent(i) ==
  {g \in {"gauge1", "gauge2", "gauge3", "gauge4"} :
     readings[i][g].value # Null}

RECURSIVE GaugeSum(_, _)
GaugeSum(i, gs) ==
  IF gs = {} THEN 0
  ELSE LET g == CHOOSE x \in gs : TRUE
       IN readings[i][g].value.n + GaugeSum(i, gs \ {g})

(* The number of hundredths a string of the form [-]d+.dd stands for *)
FixedValue(s) ==
  LET neg  == Head(s) = "-"
      body == IF neg THEN Tail(s) ELSE s
      dot  == CHOOSE k \in 1..Len(body) : body[k] = "."
      int  == digitRun(SubSeq(body, 1, dot - 1), 0, FALSE).acc
      frac == digitRun(SubSeq(body, dot + 1, Len(body)), 0, FALSE).acc
  IN (IF neg THEN 0 - 1 ELSE 1) * (100 * int + frac)

Abs(x) == IF x < 0 THEN 0 - x ELSE x

RawConfidences(raw) ==
  {raw[key].confidence : key \in {k \in DOMAIN raw :
                                    "confidence" \in DOMAIN raw[k]}}

CollaboratorReportsFull ==
  \E data \in RawResponses :
    \/ FullConfidence \in RawConfidences(data.project_info)
    \/ \E i \in 1..Len(data.readings) :
         FullConfidence \in RawConfidences(data.readings[i])

(* C22: a field has confidence 1.0 only if a user edit set it or the       *)
(* collaborator reported 1.0 for it: while no edit has been made and no    *)
(* answer of the collaborator carries a 1.0, no field of the store has     *)
(* confidence 1.0, the remark included.                                    *)
C22_FullMeansVerified ==
  (edits = 0 /\ ~CollaboratorReportsFull) =>
    /\ projectInfo # NoProjectInfo =>
         \A f \in ProjectFields : projectInfo[f].confidence # FullConfidence
    /\ \A i \in 1..Len(readings) :
         \A f \in OCRFields : readings[i][f].confidence # FullConfidence

ids(rs) == [i \in 1..Len(rs) |-> rs[i].id]

withoutCycle(reading) == [reading EXCEPT !.cycle = NoCycle]

(* C23: a successful extraction stores one reading per batch entry, the    *)
(* i-th from the i-th entry; every other step (field edits, phase writes,  *)
(* detectCycles, the toggle, step changes) keeps the readings' number and  *)
(* order.                                                                  *)
C23_ChronologicalOrder ==
  [][IF \E request \in Pending, data \in RawResponses :
          extractResolved(request, data)
     THEN \E request \in Pending, data \in RawResponses :
            /\ extractResolved(request, data)
            /\ Len(readings') = Len(data.readings)
            /\ \A i \in 1..Len(data.readings) :
                 withoutCycle(readings'[i]) =
                   transformReading(data.readings[i], i - 1, request)
     ELSE ids(readings') = ids(readings)]_vars

C23_Witness ==
  /\ Len(requests) = 2
  /\ requests[2] = "fulfilled"
  /\ Len(readings) = 2
  /\ readings[1].time # readings[2].time
  /\ edits > 0
  /\ currentStep = "report"

LowIn(info, rs, target) ==
  LET field == IF target.kind = "project" THEN info[target.field]
               ELSE rs[CHOOSE j \in 1..Len(rs) : rs[j].id = target.id]
                      [target.field]
  IN field.value # Null /\ field.confidence < 750

Countable ==
  {projectTarget(f) : f \in IF projectInfo = NoProjectInfo THEN {}
                             ELSE ProjectFields}
  \cup {readingTarget(readings[i].id, key) :
          i \in 1..Len(readings),
          key \in {"time", "pressure", "gauge1", "gauge2", "gauge3",
                   "gauge4"}}

ExtractionResolves ==
  \E request \in Pending, data \in RawResponses :
    extractResolved(request, data)

Dirty ==
  /\ cell # NoCell
  /\ cell.editValue # displayString(cellValue(cell.target).value)
  /\ newValue(cellType(cell.target), cell.editValue)
       # cellValue(cell.target).value

(* C26: Escape in edit mode leaves the store as it is (value, confidence   *)
(* and cycle of every field), drops the buffer and leaves edit mode, so    *)
(* the cell shows the stored value again; while a cell is in edit mode     *)
(* the store changes only by a commit (Enter or blur).                     *)
C26_EscapeCancels ==
  [][/\ handleKeyDown("Escape") =>
          /\ store' = store
          /\ edits' = edits
          /\ cell' = NoCell
     /\ (cell # NoCell /\ store' # store) => handleBlur]_vars

C26_Witness == Dirty /\ ENABLED handleKeyDown("Escape")

withoutRemarks(rs) == [i \in 1..Len(rs) |-> [rs[i] EXCEPT !.remark.value = Null]]

cyclesOf(rs) == [i \in 1..Len(rs) |-> rs[i].cycle]

(* C27: the remarks never change the inferred phases: detectCycles gives   *)
(* every reading sequence the cycles it gives the same sequence with the   *)
(* remarks removed, so two sequences with the same pressures (null ones    *)
(* included) and any remarks get the same cycles.                          *)
C27_RemarkIndependent ==
  cyclesOf(detectCyclesOf(readings))
    = cyclesOf(detectCyclesOf(withoutRemarks(readings)))

C27_Witness ==
  /\ Len(readings) = 3
  /\ readings[1].pressure.value # Null
  /\ readings[2].pressure.value = readings[1].pressure.value
  /\ remarkHasHold(readings[2])
  /\ readings[2].cycle = "holding"
  /\ remarkHasHold(readings[3])
  /\ readings[3].cycle = "loading"
  /\ ~remarkHasHold(readings[1])

OtherStoreKept ==
  /\ uploadedFiles' = uploadedFiles
  /\ testType' = testType
  /\ autoDetectCycles' = autoDetectCycles
  /\ currentStep' = currentStep
  /\ isLoading' = isLoading
  /\ error' = error

(* C30: updateReadingField(id, f, v) changes field f of the reading with   *)
(* that id and nothing else: the other readings, the reading's other       *)
(* fields (cycle included), projectInfo and the rest of the store stay;    *)
(* updateProjectField changes the named project field only; an unknown id, *)
(* or a project edit while projectInfo is null, changes nothing.           *)
C30_EditFrame ==
  [][/\ \A id \in ReadingIds \cup {UnknownId}, field \in OCRFields,
          value \in EditValues :
          setReadingField(id, field, value) =>
            /\ OtherStoreKept
            /\ projectInfo' = projectInfo
            /\ Len(readings') = Len(readings)
            /\ \A i \in 1..Len(readings) :
                 /\ readings[i].id # id => readings'[i] = readings[i]
                 /\ \A g \in DOMAIN readings[i] \ {field} :
                      readings'[i][g] = readings[i][g]
            /\ id \notin ReadingIds => readings' = readings
     /\ \A field \in ProjectFields, value \in EditValues :
          setProjectField(field, value) =>
            /\ OtherStoreKept
            /\ readings' = readings
            /\ IF projectInfo = NoProjectInfo
               THEN projectInfo' = NoProjectInfo
               ELSE \A g \in ProjectFields \ {field} :
                      projectInfo'[g] = projectInfo[g]]_vars

C30_Witness ==
  /\ edits = 1
  /\ Len(readings) = 2
  /\ readings[1].pressure = OCRValue(Num(2), FullConfidence)
  /\ readings[1].cycle = "loading"
  /\ readings[2].cycle = "holding"
  /\ readings[2].pressure.confidence # FullConfidence
  /\ readings[1].time.confidence # FullConfidence

====
